---- MODULE Spec2Model ----
(***************************************************************************)
(* Model of src/rub.ts: the servo motion controller and the FireLed band   *)
(* controller of the 4tronix Really Useless Box MakeCode extension.        *)
(*                                                                         *)
(* Scheduling is cooperative (MakeCode fibers): a caller runs until it     *)
(* reaches basic.pause, so every action below is the code that one caller  *)
(* runs between two pauses.                                                *)
(*                                                                         *)
(* deg2ms divides by 90, so pulse widths are not whole microseconds; the   *)
(* model keeps every pulse width in ninths of a microsecond, which makes   *)
(* 500 + degrees*1000/90 and the loops' pos +/- step exact integers.       *)
(***************************************************************************)
EXTENDS Integers, Sequences, FiniteSets, TLC

VARIABLES
    svClosed,    \* rub.ts:50
    svOpen,      \* rub.ts:51
    svSwitched,  \* rub.ts:52
    svMoving,    \* rub.ts:53
    svPos,       \* rub.ts:54
    pc,          \* per caller: where it is suspended ("idle": in no servo call)
    fr,          \* per caller: the locals of its suspended call
    servoOut,    \* the writes to AnalogPin.P1 made by the latest step that wrote
    ret,         \* the servo call that returned in the latest step, if one did
    updateMode,  \* rub.ts:48
    btEnabled,   \* rub.ts:49
    bandMade,    \* rub.ts:45, whether band has been created
    pixelColors, \* the band's colour buffer
    brightness,  \* the band's brightness
    hwFrame,     \* what the FireLeds show: the latest frame transmitted
    pushed,      \* the frames transmitted by the latest step
    showCalls,   \* how many times the latest FireLed step called ledShow
    pure         \* the latest evaluation of a function that reads no state

servoVars == <<svClosed, svOpen, svSwitched, svMoving, svPos, pc, fr, servoOut, ret>>

ledVars ==
    <<updateMode, btEnabled, bandMade, pixelColors, brightness, hwFrame, pushed,
      showCalls>>

pureVars == <<pure>>

vars == <<servoVars, ledVars, pureVars>>

\* ------------------------------------------------------------ environment
\* the fibers that call the servo blocks: the main program and a handler
\* registered with onSwitchEvent
Callers == {"main", "handler"}

\* the arguments the callers pass
Degrees == {40, 90, 200}

PresetArgs == { <<70, 90, 150>>, <<90, 200, 150>> }

\* setServo's arguments in the programs that use no stepped move: the two
\* out-of-range examples and every angle from Margin below Closed's default to
\* Margin above Switched's
Margin == 5

WideDegrees == {40, 200} \cup ((70 - Margin)..(150 + Margin))

WidePresetArgs == PresetArgs \cup { <<150, 0 - 20, 70>>, <<200, 90, 0 - 20>> }

\* the arguments in the programs where one fiber moves the servo and a handler
\* sets the presets: 200 and every angle from Closed's default to MaxSweep above it
MaxSweep == 10

SweepDegrees == {200} \cup (70..(70 + MaxSweep))

SweepPresetArgs == { <<70, 90, 150>>, <<70, 90, 200>> }

\* convertRGB's channel arguments: values below 0 and above 255, and every value
\* from 250 to MaxChannel
MaxChannel == 258

ChannelArgs == {0 - 256, 0 - 1, 0, 128, 511, 1000} \cup (250..MaxChannel)

\* the arguments of the FireLed blocks
ColourArgs == {0, 16711680}

BrightnessArgs == {255}

\* ------------------------------------------------------------------ enums
servoSpeed == {"VerySlow", "Slow", "Medium", "Fast", "VeryFast"}

servoPos == {"Closed", "Open", "Switched"}

ledMode == {"Manual", "Auto"}

Unknown == 0 - 1

\* ---------------------------------------------------------------- helpers
Min(a, b) == IF a < b THEN a ELSE b

Max(a, b) == IF a > b THEN a ELSE b

clampNoMin(value, min, max) == Min(max, value)

clamp(value, min, max) == Max(Min(max, value), min)

\* 9 * (500 + degrees*1000/90)
deg2ms(degrees) == 4500 + degrees * 100

\* step after the switch (speed) of moveServo
StepOf(speed) ==
    CASE speed = "Fast" -> 5
      [] speed = "Medium" -> 2
      [] OTHER -> 1

\* delay after the switch (speed) of moveServo
DelayOf(speed) ==
    CASE speed = "Slow" -> 3
      [] OTHER -> 1

\* the step of pos -= step and pos += step, in ninths of a microsecond
StepDeltaOne(speed) == 9

StepDelta(speed) == 9 * StepOf(speed)

NoFrame == [degrees |-> 0, speed |-> "none", pos |-> 0]

Frame(degrees, speed, pos) == [degrees |-> degrees, speed |-> speed, pos |-> pos]

NoPure == [op |-> "none", arg |-> <<>>, val |-> <<>>]

NoCall == [by |-> "none", op |-> "none", arg |-> 0, speed |-> "none", from |-> 0]

\* a call of op by c with its arguments, made when svPos was from
Call(c, op, arg, speed) ==
    [by |-> c, op |-> op, arg |-> arg, speed |-> speed, from |-> svPos]

\* a suspended motion call of c that returns
Resumed(c) == [by |-> c, op |-> "resumed", arg |-> 0, speed |-> "none", from |-> svPos]

AngleWrite(c, degrees) == [by |-> c, kind |-> "angle", val |-> degrees]

PulseWrite(c, pos) == [by |-> c, kind |-> "pulse", val |-> pos]

InSteps(c) == pc[c] \in {"stepDown", "stepUp"}

\* ------------------------------------------------------------------- Init
Init ==
    /\ svClosed = 70
    /\ svOpen = 90
    /\ svSwitched = 150
    /\ svMoving = FALSE
    /\ svPos = Unknown
    /\ pc = [c \in Callers |-> "idle"]
    /\ fr = [c \in Callers |-> NoFrame]
    /\ servoOut = <<>>
    /\ ret = NoCall
    /\ updateMode = "Auto"
    /\ btEnabled = FALSE
    /\ bandMade = FALSE
    /\ pixelColors = <<>>
    /\ brightness = 0
    /\ hwFrame = <<>>
    /\ pushed = <<>>
    /\ showCalls = 0
    /\ pure = NoPure

\* ------------------------------------------------------------ servo blocks
\* the conditions of while (svMoving) in setServo, moveServo and waitServo
NeverWait == FALSE

SetMustWait == svMoving

MoveMustWait == svMoving

WaitMustWait == svMoving

\* if (svPos == -1) speed = servoSpeed.VeryFast
RequestedSpeed(speed) == speed

EffectiveSpeed(speed) == IF svPos = Unknown THEN "VeryFast" ELSE speed

\* the conditions of the two for loops
LoopDownOrEqual(pos, degrees) == pos >= deg2ms(degrees)

LoopDown(pos, degrees) == pos > deg2ms(degrees)

LoopUpOrEqual(pos, degrees) == pos <= deg2ms(degrees)

LoopUp(pos, degrees) == pos < deg2ms(degrees)

Suspend(c, at, frame) ==
    /\ pc' = [pc EXCEPT ![c] = at]
    /\ fr' = [fr EXCEPT ![c] = frame]

Return(c) == Suspend(c, "idle", NoFrame)

\* setServo after its clamp: the wait, the write and svPos = degrees
\* (when moveServo made the call, its own svPos = degrees follows in the same step)
SetServoBody(c, degrees) ==
    IF SetMustWait
    THEN /\ Suspend(c, "setPoll", Frame(degrees, "VeryFast", 0))
         /\ UNCHANGED <<svMoving, svPos, servoOut>>
    ELSE /\ servoOut' = <<AngleWrite(c, degrees)>>
         /\ svPos' = degrees
         /\ Return(c)
         /\ UNCHANGED svMoving

\* svMoving = false; svPos = degrees
FinishMoveKeepPos(c, degrees) ==
    /\ svMoving' = FALSE
    /\ UNCHANGED svPos
    /\ Return(c)

FinishMove(c, degrees) ==
    /\ svMoving' = FALSE
    /\ svPos' = degrees
    /\ Return(c)

\* one evaluation of a for loop's condition at pos, then either the loop's body
\* up to its pause or the end of moveServo
LoopIter(c, degrees, speed, pos, down) ==
    IF (IF down THEN LoopDown(pos, degrees) ELSE LoopUp(pos, degrees))
    THEN /\ servoOut' = <<PulseWrite(c, pos)>>
         /\ svMoving' = TRUE
         /\ Suspend(c, IF down THEN "stepDown" ELSE "stepUp",
                    Frame(degrees, speed, pos))
         /\ UNCHANGED svPos
    ELSE /\ FinishMove(c, degrees)
         /\ UNCHANGED servoOut

\* moveServo from its switch to the first pause of a loop
BeginSteps(c, degrees, speed) ==
    LoopIter(c, degrees, speed, deg2ms(svPos), degrees < svPos)

\* moveServo after its clamp
MoveServoBody(c, degrees, speed) ==
    IF EffectiveSpeed(speed) = "VeryFast"
    THEN SetServoBody(c, clamp(degrees, svClosed, svSwitched))
    ELSE IF MoveMustWait
         THEN /\ Suspend(c, "movePoll", Frame(degrees, speed, 0))
              /\ UNCHANGED <<svMoving, svPos, servoOut>>
         ELSE BeginSteps(c, degrees, speed)

Returned(c, call) == ret' = IF pc'[c] = "idle" THEN call ELSE NoCall

setServoPresetsAsGiven(c, closed, open, switched) ==
    /\ pc[c] = "idle"
    /\ svClosed' = closed
    /\ svOpen' = open
    /\ svSwitched' = switched
    /\ ret' = Call(c, "setServoPresets", <<closed, open, switched>>, "none")
    /\ UNCHANGED <<svMoving, svPos, pc, fr, servoOut, ledVars, pureVars>>

setServoPresets(c, closed, open, switched) ==
    /\ pc[c] = "idle"
    /\ svClosed' = clamp(closed, 0, 180)
    /\ svOpen' = clamp(open, 0, 180)
    /\ svSwitched' = clamp(switched, 0, 180)
    /\ ret' = Call(c, "setServoPresets", <<closed, open, switched>>, "none")
    /\ UNCHANGED <<svMoving, svPos, pc, fr, servoOut, ledVars, pureVars>>

setServo(c, degrees) ==
    /\ pc[c] = "idle"
    /\ SetServoBody(c, clamp(degrees, svClosed, svSwitched))
    /\ Returned(c, Call(c, "setServo", degrees, "none"))
    /\ UNCHANGED <<svClosed, svOpen, svSwitched, ledVars, pureVars>>

moveServo(c, degrees, speed) ==
    /\ pc[c] = "idle"
    /\ MoveServoBody(c, clamp(degrees, svClosed, svSwitched), speed)
    /\ Returned(c, Call(c, "moveServo", degrees, speed))
    /\ UNCHANGED <<svClosed, svOpen, svSwitched, ledVars, pureVars>>

PresetAngle(position) ==
    CASE position = "Closed" -> svClosed
      [] position = "Open" -> svOpen
      [] position = "Switched" -> svSwitched

positionServo(c, position, speed) ==
    /\ pc[c] = "idle"
    /\ MoveServoBody(c, clamp(PresetAngle(position), svClosed, svSwitched), speed)
    /\ Returned(c, Call(c, "positionServo", position, speed))
    /\ UNCHANGED <<svClosed, svOpen, svSwitched, ledVars, pureVars>>

waitServo(c) ==
    /\ pc[c] = "idle"
    /\ IF WaitMustWait
       THEN Suspend(c, "waitPoll", NoFrame)
       ELSE Return(c)
    /\ Returned(c, Call(c, "waitServo", 0, "none"))
    /\ UNCHANGED <<svClosed, svOpen, svSwitched, svMoving, svPos, servoOut, ledVars, pureVars>>

\* degrees, as a call that waited at basic.pause(5) reads it afterwards
ReclampedTarget(c) == clamp(fr[c].degrees, svClosed, svSwitched)

StalledTarget(c) == fr[c].degrees

\* the resumptions after basic.pause(5)
SetPoll(c) ==
    /\ pc[c] = "setPoll"
    /\ SetServoBody(c, StalledTarget(c))
    /\ Returned(c, Resumed(c))
    /\ UNCHANGED <<svClosed, svOpen, svSwitched, ledVars, pureVars>>

MovePoll(c) ==
    /\ pc[c] = "movePoll"
    /\ IF MoveMustWait
       THEN UNCHANGED <<svMoving, svPos, pc, fr, servoOut>>
       ELSE BeginSteps(c, StalledTarget(c), fr[c].speed)
    /\ Returned(c, Resumed(c))
    /\ UNCHANGED <<svClosed, svOpen, svSwitched, ledVars, pureVars>>

WaitPoll(c) ==
    /\ pc[c] = "waitPoll"
    /\ IF WaitMustWait THEN UNCHANGED <<pc, fr>> ELSE Return(c)
    /\ ret' = NoCall
    /\ UNCHANGED <<svClosed, svOpen, svSwitched, svMoving, svPos, servoOut, ledVars, pureVars>>

\* the resumption after basic.pause(delay): pos -= step or pos += step, then the
\* loop's condition and its body up to the next pause
Step(c) ==
    /\ InSteps(c)
    /\ LET down == pc[c] = "stepDown"
           pos == IF down THEN fr[c].pos - StepDelta(fr[c].speed)
                          ELSE fr[c].pos + StepDelta(fr[c].speed)
       IN LoopIter(c, fr[c].degrees, fr[c].speed, pos, down)
    /\ Returned(c, Resumed(c))
    /\ UNCHANGED <<svClosed, svOpen, svSwitched, ledVars, pureVars>>

Resume(c) == SetPoll(c) \/ MovePoll(c) \/ WaitPoll(c) \/ Step(c)

ServoNext ==
    \/ \E c \in Callers, p \in PresetArgs : setServoPresets(c, p[1], p[2], p[3])
    \/ \E c \in Callers, d \in Degrees : setServo(c, d)
    \/ \E c \in Callers, d \in Degrees, s \in servoSpeed : moveServo(c, d, s)
    \/ \E c \in Callers, p \in servoPos, s \in servoSpeed : positionServo(c, p, s)
    \/ \E c \in Callers : waitServo(c)
    \/ \E c \in Callers : SetPoll(c)
    \/ \E c \in Callers : MovePoll(c)
    \/ \E c \in Callers : WaitPoll(c)
    \/ \E c \in Callers : Step(c)

\* the programs that position the servo with setServo alone
DirectNext ==
    \/ \E c \in Callers, p \in WidePresetArgs : setServoPresets(c, p[1], p[2], p[3])
    \/ \E c \in Callers, d \in WideDegrees : setServo(c, d)
    \/ \E c \in Callers : waitServo(c)

SpecServo == Init /\ [][ServoNext]_vars

\* every suspended caller is resumed when its pause has elapsed
FairServo == SpecServo /\ \A c \in Callers : WF_vars(Resume(c))

SpecDirect == Init /\ [][DirectNext]_vars

\* the programs where the main fiber alone moves the servo
SweepNext ==
    \/ \E p \in SweepPresetArgs : setServoPresets("handler", p[1], p[2], p[3])
    \/ \E d \in SweepDegrees : setServo("main", d)
    \/ \E d \in SweepDegrees, s \in servoSpeed : moveServo("main", d, s)
    \/ Step("main")

SpecSweep == Init /\ [][SweepNext]_vars

\* ---------------------------------------------------------- FireLed blocks
ledCount == 4

LedIds == 0..(ledCount - 1)

\* fireled.Band, as the blocks use it: a buffer of ledCount colours
Blank == [i \in 1..ledCount |-> 0]

setBand(px, rgb) == [i \in 1..ledCount |-> rgb]

clearBand(px) == Blank

setPixel(px, ledId, rgb) == [px EXCEPT ![ledId + 1] = rgb]

\* one turn of the hue wheel across the band
setRainbow(px) == <<16711680, 8453888, 65535, 8388863>>

shiftBand(px) == [i \in 1..ledCount |-> IF i = 1 THEN 0 ELSE px[i - 1]]

rotateBand(px) == [i \in 1..ledCount |-> IF i = 1 THEN px[ledCount] ELSE px[i - 1]]

\* fire(): the band, created with brightness 40 when there is none yet
FirePixels == IF bandMade THEN pixelColors ELSE Blank

FireBrightness == IF bandMade THEN brightness ELSE 40

\* if (! btEnabled) of ledShow
ShowAlways == TRUE

ShowAllowed == ~btEnabled

\* ledShow on a band holding px at brightness br: fire().updateBand()
Show(px, br) ==
    /\ showCalls' = 1
    /\ IF ShowAllowed
       THEN /\ hwFrame' = <<[pixels |-> px, brightness |-> br]>>
            /\ pushed' = <<[pixels |-> px, brightness |-> br]>>
       ELSE /\ pushed' = <<>>
            /\ UNCHANGED hwFrame

\* updateLEDs on a band holding px at brightness br
updateLEDsAnyMode(px, br) == Show(px, br)

updateLEDs(px, br) ==
    IF updateMode = "Auto"
    THEN Show(px, br)
    ELSE /\ pushed' = <<>>
         /\ showCalls' = 0
         /\ UNCHANGED hwFrame

\* a block that changes the band through fire() and then calls updateLEDs
BandBlockWhenShown(px, br) ==
    /\ bandMade' = TRUE
    /\ pixelColors' = (IF updateMode = "Auto" /\ ShowAllowed THEN px ELSE FirePixels)
    /\ brightness' = br
    /\ updateLEDs(pixelColors', br)
    /\ UNCHANGED <<updateMode, btEnabled, servoVars, pureVars>>

BandBlock(px, br) ==
    /\ bandMade' = TRUE
    /\ pixelColors' = px
    /\ brightness' = br
    /\ updateLEDs(px, br)
    /\ UNCHANGED <<updateMode, btEnabled, servoVars, pureVars>>

setLedColor(rgb) == BandBlock(setBand(FirePixels, rgb), FireBrightness)

ledClear == BandBlock(clearBand(FirePixels), FireBrightness)

setPixelColor(ledId, rgb) == BandBlock(setPixel(FirePixels, ledId, rgb), FireBrightness)

ledRainbow == BandBlock(setRainbow(FirePixels), FireBrightness)

ledShift == BandBlock(shiftBand(FirePixels), FireBrightness)

ledRotate == BandBlock(rotateBand(FirePixels), FireBrightness)

\* fire().setBrightness(brightness); updateLEDs()
ledBrightnessNoUpdate(b) ==
    /\ bandMade' = TRUE
    /\ pixelColors' = FirePixels
    /\ brightness' = b
    /\ pushed' = <<>>
    /\ showCalls' = 0
    /\ UNCHANGED <<updateMode, btEnabled, hwFrame, servoVars, pureVars>>

ledBrightness(b) == BandBlock(FirePixels, b)

enableBluetooth(enable) ==
    /\ btEnabled' = enable
    /\ pushed' = <<>>
    /\ showCalls' = 0
    /\ UNCHANGED <<updateMode, bandMade, pixelColors, brightness, hwFrame, servoVars, pureVars>>

\* updateMode = mode
setUpdateModeAndUpdate(mode) ==
    /\ updateMode' = mode
    /\ IF mode = "Auto" /\ bandMade
       THEN Show(pixelColors, brightness)
       ELSE /\ pushed' = <<>>
            /\ showCalls' = 0
            /\ UNCHANGED hwFrame
    /\ UNCHANGED <<btEnabled, bandMade, pixelColors, brightness, servoVars, pureVars>>

setUpdateMode(mode) ==
    /\ updateMode' = mode
    /\ pushed' = <<>>
    /\ showCalls' = 0
    /\ UNCHANGED <<btEnabled, bandMade, pixelColors, brightness, hwFrame, servoVars, pureVars>>

\* fire() runs, and creates the band, only when the band is transmitted
ledShow ==
    /\ Show(FirePixels, FireBrightness)
    /\ IF ShowAllowed
       THEN /\ bandMade' = TRUE
            /\ pixelColors' = FirePixels
            /\ brightness' = FireBrightness
       ELSE UNCHANGED <<bandMade, pixelColors, brightness>>
    /\ UNCHANGED <<updateMode, btEnabled, servoVars, pureVars>>

LedNext ==
    \/ \E rgb \in ColourArgs : setLedColor(rgb)
    \/ ledClear
    \/ \E i \in LedIds, rgb \in ColourArgs : setPixelColor(i, rgb)
    \/ ledRainbow
    \/ ledShift
    \/ ledRotate
    \/ \E b \in BrightnessArgs : ledBrightness(b)
    \/ \E e \in BOOLEAN : enableBluetooth(e)
    \/ \E m \in ledMode : setUpdateMode(m)
    \/ ledShow

SpecLed == Init /\ [][LedNext]_vars

\* the programs that leave the brightness at fire()'s 40
BandNext ==
    \/ \E rgb \in ColourArgs : setLedColor(rgb)
    \/ ledClear
    \/ \E i \in LedIds, rgb \in ColourArgs : setPixelColor(i, rgb)
    \/ ledRainbow
    \/ ledShift
    \/ ledRotate
    \/ \E e \in BOOLEAN : enableBluetooth(e)
    \/ \E m \in ledMode : setUpdateMode(m)
    \/ ledShow

SpecBand == Init /\ [][BandNext]_vars

\* the programs that colour the band as a whole and set its brightness
DimmerArgs == {0, 40, 255}

DimmerNext ==
    \/ \E rgb \in ColourArgs : setLedColor(rgb)
    \/ ledClear
    \/ ledRainbow
    \/ \E b \in DimmerArgs : ledBrightness(b)
    \/ \E e \in BOOLEAN : enableBluetooth(e)
    \/ \E m \in ledMode : setUpdateMode(m)
    \/ ledShow

SpecDimmer == Init /\ [][DimmerNext]_vars

\* ------------------------------------------------- functions of no state
\* a & b, a | b on two's complement integers (\div rounds down, so a \div 2 is
\* a >> 1 and a % 2 is a's lowest bit, for negative a too; -1 is all ones)
RECURSIVE BitAnd(_, _)
BitAnd(a, b) ==
    IF a = 0 \/ b = 0 THEN 0
    ELSE IF a = 0 - 1 THEN b
    ELSE IF b = 0 - 1 THEN a
    ELSE (a % 2) * (b % 2) + 2 * BitAnd(a \div 2, b \div 2)

RECURSIVE BitOr(_, _)
BitOr(a, b) ==
    IF a = 0 - 1 \/ b = 0 - 1 THEN 0 - 1
    ELSE IF a = 0 THEN b
    ELSE IF b = 0 THEN a
    ELSE Max(a % 2, b % 2) + 2 * BitOr(a \div 2, b \div 2)

\* a << n; the operands here are at most 255 and 16, so no bit leaves the 32
ShiftLeft(a, n) == a * 2^n

\* (r & 0xFF)
NoMask(x) == x

Mask8(x) == BitAnd(x, 255)

convertRGB(r, g, b) ==
    BitOr(BitOr(ShiftLeft(Mask8(r), 16), ShiftLeft(Mask8(g), 8)), Mask8(b))

\* step and delay as the switch of moveServo leaves them, and whether the
\* speed takes the setServo branch instead of the loops
SpeedProfile(speed) ==
    [step |-> StepOf(speed), delay |-> DelayOf(speed), direct |-> speed = "VeryFast"]

PureCall(op, arg, val) == [op |-> op, arg |-> arg, val |-> val]

\* one evaluation at a time: the value is used before the next one is asked for
ConvertCall(r, g, b) ==
    /\ pure = NoPure
    /\ pure' = PureCall("convertRGB", <<r, g, b>>, convertRGB(r, g, b))
    /\ UNCHANGED <<servoVars, ledVars>>

SwitchSpeed(speed) ==
    /\ pure = NoPure
    /\ pure' = PureCall("switch", <<speed>>, SpeedProfile(speed))
    /\ UNCHANGED <<servoVars, ledVars>>

PureUsed ==
    /\ pure # NoPure
    /\ pure' = NoPure
    /\ UNCHANGED <<servoVars, ledVars>>

PureNext ==
    \/ \E r \in ChannelArgs, g \in ChannelArgs, b \in ChannelArgs : ConvertCall(r, g, b)
    \/ \E speed \in servoSpeed : SwitchSpeed(speed)
    \/ PureUsed

SpecPure == Init /\ [][PureNext]_vars

Next == ServoNext \/ LedNext \/ PureNext

Spec == Init /\ [][Next]_vars

\* ----------------------------------------------------------------- claims
Other(c) == Callers \ {c}

MotionOps == {"setServo", "moveServo", "positionServo"}

DefaultPresets == svClosed = 70 /\ svOpen = 90 /\ svSwitched = 150

\* the target of the motion call that ret names, with the presets as they are
TargetOf(call) ==
    IF call.op = "positionServo"
    THEN clamp(PresetAngle(call.arg), svClosed, svSwitched)
    ELSE clamp(call.arg, svClosed, svSwitched)

\* C1: no two callers are inside the stepping section of moveServo at once, and
\* svMoving is set exactly while one caller is inside it.
C1_OneSteppedMove ==
    /\ \A c \in Callers : \A d \in Other(c) : ~(InSteps(c) /\ InSteps(d))
    /\ svMoving <=> \E c \in Callers : InSteps(c)

\* a second moveServo is waiting while a stepped move is in flight
C1_Witness ==
    \E c \in Callers : \E d \in Other(c) :
        InSteps(c) /\ pc[d] = "movePoll" /\ svMoving

\* C2: while a caller is inside a stepped move, every write to the servo is a
\* pulse of that caller and svPos changes only as that move ends, so a motion
\* command issued meanwhile writes nothing and leaves svPos alone until then.
C2_NoInterleaving ==
    [][\A c \in Callers : InSteps(c) =>
          /\ servoOut' # servoOut =>
                \A i \in DOMAIN servoOut' :
                    servoOut'[i].by = c /\ servoOut'[i].kind = "pulse"
          /\ svPos' # svPos =>
                ~svMoving' /\ pc'[c] = "idle" /\ svPos' = fr[c].degrees
          /\ \A d \in Other(c) : pc[d] = "idle" =>
                pc'[d] \in {"idle", "setPoll", "movePoll", "waitPoll"}]_vars

\* a setServo and nothing but the stepping caller's pulse on the pin
C2_Witness ==
    \E c \in Callers : \E d \in Other(c) :
        /\ pc[c] = "stepDown"
        /\ pc[d] = "setPoll"
        /\ servoOut = <<PulseWrite(c, fr[c].pos)>>
        /\ svPos # fr[d].degrees

\* a motion call returned in the latest step
MoveCompleted == ret.op \in MotionOps \/ ret.op = "resumed"

LowestPreset == Min(svClosed, Min(svOpen, svSwitched))

HighestPreset == Max(svClosed, Max(svOpen, svSwitched))

\* C3: when a move has just completed, svPos lies between the lowest and the
\* highest of the three presets.
C3_InPresetRange ==
    MoveCompleted => LowestPreset <= svPos /\ svPos <= HighestPreset

\* C4: with presets (70, 90, 150), a setServo(d) that finds the servo idle makes
\* one angle write and leaves svPos at 70 for d < 70, at 150 for d > 150 and at d
\* otherwise.
C4_SetServoClamps ==
    (ret.op = "setServo" /\ DefaultPresets) =>
        /\ svPos = (IF ret.arg < 70 THEN 70 ELSE IF ret.arg > 150 THEN 150 ELSE ret.arg)
        /\ servoOut = <<AngleWrite(ret.by, svPos)>>
        /\ ~svMoving

\* setServo(40) has set the servo to 70
C4_Witness ==
    /\ ret.op = "setServo"
    /\ DefaultPresets
    /\ ret.arg = 40
    /\ svPos = 70
    /\ servoOut = <<AngleWrite(ret.by, 70)>>

\* C5: while svPos is unknown no caller is suspended, and a moveServo or
\* positionServo made then returns in the same step, whatever its speed, with one
\* angle write of the clamped target, svMoving never set and svPos at the target.
C5_FirstMoveImmediate ==
    [][svPos = Unknown =>
          /\ \A c \in Callers : pc[c] = "idle" /\ pc'[c] = "idle"
          /\ ~svMoving /\ ~svMoving'
          /\ ret'.op \in {"moveServo", "positionServo"} =>
                /\ ret'.from = Unknown
                /\ svPos' = TargetOf(ret')
                /\ servoOut' = <<AngleWrite(ret'.by, svPos')>>]_vars

\* the first move, asked for at the slowest speed, was one angle write
C5_Witness ==
    /\ ret.op = "moveServo"
    /\ ret.from = Unknown
    /\ ret.speed = "VerySlow"
    /\ svPos = 150
    /\ servoOut = <<AngleWrite(ret.by, 150)>>
    /\ ~svMoving

\* C6: no caller stays inside a stepped move for ever (again and again no
\* caller is inside one), and a caller leaves one only by ending the move: it
\* returns with svMoving cleared and svPos at the move's clamped target; until
\* then its target and speed stay, svMoving stays set and svPos stays.
C6_RunsToCompletion ==
    /\ []<>(\A c \in Callers : ~InSteps(c))
    /\ [][\A c \in Callers : InSteps(c) =>
             \/ /\ InSteps(c)'
                /\ pc'[c] = pc[c]
                /\ fr'[c].degrees = fr[c].degrees
                /\ fr'[c].speed = fr[c].speed
                /\ svMoving'
                /\ svPos' = svPos
             \/ /\ pc'[c] = "idle"
                /\ ~svMoving'
                /\ svPos' = fr[c].degrees]_vars

\* a stepped move at the slowest speed is under way, down from 150 to 70
C6_Witness ==
    \E c \in Callers :
        /\ pc[c] = "stepDown"
        /\ fr[c].speed = "VerySlow"
        /\ fr[c].degrees = 70
        /\ svPos = 150
        /\ fr[c].pos < deg2ms(90)

\* C7: a waitServo made while svMoving is clear returns in the same step, one
\* made while it is set suspends, and a suspended waitServo returns only in a
\* step that finds svMoving clear.
C7_WaitServo ==
    [][\A c \in Callers :
          /\ (pc[c] = "idle" /\ pc'[c] = "waitPoll") => svMoving /\ svMoving'
          /\ (pc[c] = "waitPoll" /\ pc'[c] = "idle") => ~svMoving /\ ~svMoving'
          /\ (ret'.op = "waitServo" /\ ret'.by = c) => ~svMoving'
          /\ (svMoving /\ pc[c] = "waitPoll") => pc'[c] = "waitPoll"]_vars

\* a waitServo is held back by a stepped move
C7_Witness ==
    \E c \in Callers : \E d \in Other(c) :
        pc[c] = "waitPoll" /\ InSteps(d) /\ svMoving

\* C8: when a positionServo has just returned, svPos is the angle configured for
\* the preset it named.
C8_AtNamedPreset ==
    ret.op = "positionServo" => svPos = PresetAngle(ret.arg)

\* C9: no caller enters a stepping loop whose target is svPos, and a moveServo
\* whose clamped target is svPos returns in the same step with svPos unchanged
\* and no pulse written (nothing written at all unless it took the VeryFast path).
C9_NoStepsAtTarget ==
    [][/\ \A c \in Callers : (~InSteps(c) /\ InSteps(c)') => fr'[c].degrees # svPos
       /\ \A c \in Callers : (~svMoving /\ pc[c] = "idle") =>
             pc'[c] \in {"idle", "stepDown", "stepUp"}
       /\ (ret'.op = "moveServo" /\ ret'.from # Unknown /\ ret'.from = svPos
             /\ TargetOf(ret') = ret'.from) =>
             /\ svPos' = svPos
             /\ IF ret'.speed = "VeryFast"
                THEN servoOut' = <<AngleWrite(ret'.by, svPos)>>
                ELSE servoOut' = servoOut]_vars

\* moveServo(90, Slow) has returned with the servo already at 90
C9_Witness ==
    /\ ret.op = "moveServo"
    /\ ret.arg = 90
    /\ ret.speed = "Slow"
    /\ ret.from = 90
    /\ svPos = 90
    /\ servoOut = <<AngleWrite(ret.by, 90)>>

\* C10: a step transmits the band only when btEnabled is false.
C10_NoPushUnderBluetooth == pushed # <<>> => ~btEnabled

\* with Bluetooth enabled an Auto-mode block has changed the buffer and nothing
\* was transmitted: the FireLeds still show the earlier frame
C10_Witness ==
    /\ btEnabled
    /\ updateMode = "Auto"
    /\ bandMade
    /\ pushed = <<>>
    /\ hwFrame # <<>>
    /\ hwFrame[1].pixels # pixelColors

\* a step of one of the six blocks that change the colour buffer
BufferBlock ==
    \/ \E rgb \in ColourArgs : setLedColor(rgb)
    \/ ledClear
    \/ \E i \in LedIds, rgb \in ColourArgs : setPixelColor(i, rgb)
    \/ ledRainbow
    \/ ledShift
    \/ ledRotate

FrameOf(px, br) == [pixels |-> px, brightness |-> br]

\* C11: each of the six buffer blocks leaves in pixelColors the change it makes
\* to the buffer it found, in either update mode and with Bluetooth on or off,
\* and ledShow leaves the buffer's contents as they were (a band that did not
\* exist yet is created blank).
C11_MutationAlwaysApplied ==
    [][/\ \A rgb \in ColourArgs :
             setLedColor(rgb) => pixelColors' = [i \in 1..ledCount |-> rgb]
       /\ ledClear => pixelColors' = [i \in 1..ledCount |-> 0]
       /\ \A id \in LedIds, rgb \in ColourArgs :
             setPixelColor(id, rgb) =>
                 /\ pixelColors'[id + 1] = rgb
                 /\ \A j \in 1..ledCount : j # id + 1 => pixelColors'[j] = FirePixels[j]
       /\ ledRainbow => pixelColors' = setRainbow(FirePixels)
       /\ ledShift =>
             /\ pixelColors'[1] = 0
             /\ \A j \in 2..ledCount : pixelColors'[j] = FirePixels[j - 1]
       /\ ledRotate =>
             /\ pixelColors'[1] = FirePixels[ledCount]
             /\ \A j \in 2..ledCount : pixelColors'[j] = FirePixels[j - 1]
       /\ BufferBlock => bandMade' /\ Len(pixelColors') = ledCount
       /\ ledShow => FirePixels' = FirePixels]_vars

\* in Manual mode with Bluetooth on, a block has filled the buffer with one
\* colour while the FireLeds still show the rainbow
C11_Witness ==
    /\ updateMode = "Manual"
    /\ btEnabled
    /\ showCalls = 0
    /\ pixelColors = [i \in 1..ledCount |-> 16711680]
    /\ hwFrame # <<>>
    /\ hwFrame[1].pixels = setRainbow(Blank)

\* C12: in Auto mode a buffer block calls ledShow once, after its change, so with
\* Bluetooth off the one frame transmitted is the changed buffer; in Manual mode
\* a buffer block calls ledShow not at all and transmits nothing, and the frame
\* on the FireLeds changes only in a step of ledShow.
C12_AutoPushGate ==
    [][/\ (BufferBlock /\ updateMode = "Auto") =>
             /\ showCalls' = 1
             /\ ~btEnabled =>
                   /\ pushed' = <<FrameOf(pixelColors', brightness')>>
                   /\ hwFrame' = <<FrameOf(pixelColors', brightness')>>
       /\ (BufferBlock /\ updateMode = "Manual") =>
             /\ showCalls' = 0
             /\ pushed' = <<>>
             /\ hwFrame' = hwFrame
       /\ (updateMode = "Manual" /\ hwFrame' # hwFrame) => ledShow]_vars

\* in Auto mode with Bluetooth off a block has just changed one pixel and the
\* FireLeds show the changed buffer
C12_Witness ==
    /\ updateMode = "Auto"
    /\ ~btEnabled
    /\ showCalls = 1
    /\ pushed = <<FrameOf(pixelColors, brightness)>>
    /\ hwFrame = pushed
    /\ pixelColors = <<0, 16711680, 0, 0>>

\* C19: setUpdateMode and enableBluetooth set their own flag and nothing else:
\* they call ledShow not at all, transmit nothing and leave the band, its buffer
\* and its brightness alone; so the frame on the FireLeds changes only in a step
\* of a buffer block, of ledBrightness or of ledShow.
C19_FlagsOnly ==
    [][/\ \A m \in ledMode :
             setUpdateMode(m) =>
                 /\ updateMode' = m
                 /\ showCalls' = 0 /\ pushed' = <<>>
                 /\ UNCHANGED <<btEnabled, bandMade, pixelColors, brightness, hwFrame>>
       /\ \A e \in BOOLEAN :
             enableBluetooth(e) =>
                 /\ btEnabled' = e
                 /\ showCalls' = 0 /\ pushed' = <<>>
                 /\ UNCHANGED <<updateMode, bandMade, pixelColors, brightness, hwFrame>>
       /\ hwFrame' # hwFrame =>
             /\ BufferBlock \/ (\E b \in DimmerArgs : ledBrightness(b)) \/ ledShow
             /\ pushed' = hwFrame']_vars

\* the mode has just been switched to Auto, Bluetooth is off, and the FireLeds
\* still show a frame that is not the buffer
C19_Witness ==
    /\ updateMode = "Auto"
    /\ ~btEnabled
    /\ showCalls = 0
    /\ pushed = <<>>
    /\ bandMade
    /\ hwFrame # <<>>
    /\ hwFrame[1].pixels # pixelColors

\* C20: ledBrightness stores the new brightness and leaves the buffer's contents
\* as they were in every case; it transmits the band, at the new brightness,
\* exactly when updateMode is Auto and Bluetooth is off.
C20_BrightnessGate ==
    [][\A b \in DimmerArgs :
          ledBrightness(b) =>
              /\ bandMade'
              /\ brightness' = b
              /\ pixelColors' = FirePixels
              /\ showCalls' = (IF updateMode = "Auto" THEN 1 ELSE 0)
              /\ IF updateMode = "Auto" /\ ~btEnabled
                 THEN /\ pushed' = <<FrameOf(FirePixels, b)>>
                      /\ hwFrame' = <<FrameOf(FirePixels, b)>>
                 ELSE /\ pushed' = <<>>
                      /\ hwFrame' = hwFrame]_vars

\* in Manual mode the brightness was raised to 255 and the FireLeds still show
\* the frame sent at brightness 40
C20_Witness ==
    /\ updateMode = "Manual"
    /\ ~btEnabled
    /\ bandMade
    /\ brightness = 255
    /\ showCalls = 0
    /\ pushed = <<>>
    /\ hwFrame # <<>>
    /\ hwFrame[1].brightness = 40

\* the speeds from slowest to fastest, as servoSpeed declares them
SpeedRank(speed) ==
    CASE speed = "VerySlow" -> 0
      [] speed = "Slow" -> 1
      [] speed = "Medium" -> 2
      [] speed = "Fast" -> 3
      [] speed = "VeryFast" -> 4

\* C13: every speed has a step and a delay; the pair of a speed differs from the
\* pair of the next faster speed; the next faster speed has neither a smaller
\* step together with a larger delay, nor a lower rate of step per delay (so
\* VerySlow is not faster than Slow); VeryFast alone moves without steps.
C13_SpeedProfile ==
    pure.op = "switch" =>
        /\ pure.val.step \in Nat \ {0}
        /\ pure.val.delay \in Nat \ {0}
        /\ \A faster \in servoSpeed :
              SpeedRank(faster) = SpeedRank(pure.arg[1]) + 1 =>
                  LET p == pure.val
                      q == SpeedProfile(faster)
                  IN /\ ~p.direct
                     /\ <<p.step, p.delay, p.direct>> # <<q.step, q.delay, q.direct>>
                     /\ q.direct \/ ~(q.step < p.step /\ q.delay > p.delay)
                     /\ q.direct \/ p.step * q.delay <= q.step * p.delay

\* C14: convertRGB(r, g, b) is (r mod 256) * 65536 + (g mod 256) * 256 +
\* (b mod 256), with mod the remainder in 0..255, so it lies in 0..16777215, and
\* convertRGB(255, 0, 128) is 16711808 (0xFF0080).
C14_ConvertRGB ==
    pure.op = "convertRGB" =>
        /\ pure.val = (pure.arg[1] % 256) * 65536 + (pure.arg[2] % 256) * 256
                         + (pure.arg[3] % 256)
        /\ pure.val \in 0..16777215
        /\ pure.arg = <<255, 0, 128>> => pure.val = 16711808

\* channels above 255 are masked: convertRGB(511, 256, 128) is 0xFF0080 too
C14_Witness ==
    /\ pure.op = "convertRGB"
    /\ pure.arg = <<511, 256, 128>>
    /\ pure.val = 16711808

\* the step of each speed in ninths of a microsecond: 5, 2 and 1 microseconds
TierStep(speed) ==
    CASE speed = "Fast" -> 45
      [] speed = "Medium" -> 18
      [] speed \in {"VerySlow", "Slow"} -> 9

Stalled(c) == pc[c] \in {"setPoll", "movePoll"}

\* C15: a stepped move, which no VeryFast call makes, starts with one pulse of
\* deg2ms(svPos), in the loop that leads to its target; each later step of it
\* writes one pulse, the last one plus or minus its speed's step, still short
\* of deg2ms(target); it ends, writing nothing, in the step where the next pulse
\* would reach or pass deg2ms(target); no other step writes in between.
C15_SteppedPulses ==
    [][\A c \in Callers :
          /\ (~InSteps(c) /\ InSteps(c)') =>
                /\ fr'[c].speed \in servoSpeed \ {"VeryFast"}
                /\ fr'[c].degrees # svPos
                /\ pc'[c] = (IF fr'[c].degrees < svPos THEN "stepDown" ELSE "stepUp")
                /\ servoOut' = <<PulseWrite(c, deg2ms(svPos))>>
          /\ (InSteps(c) /\ InSteps(c)') =>
                /\ servoOut = <<PulseWrite(c, fr[c].pos)>>
                /\ pc'[c] = pc[c]
                /\ \/ fr'[c] = fr[c] /\ servoOut' = servoOut
                   \/ /\ fr'[c].pos = (IF pc[c] = "stepUp"
                                        THEN fr[c].pos + TierStep(fr[c].speed)
                                        ELSE fr[c].pos - TierStep(fr[c].speed))
                      /\ servoOut' = <<PulseWrite(c, fr'[c].pos)>>
                      /\ IF pc[c] = "stepUp"
                         THEN fr'[c].pos < deg2ms(fr[c].degrees)
                         ELSE fr'[c].pos > deg2ms(fr[c].degrees)
          /\ (InSteps(c) /\ ~InSteps(c)') =>
                /\ servoOut' = servoOut
                /\ IF pc[c] = "stepUp"
                   THEN fr[c].pos + TierStep(fr[c].speed) >= deg2ms(fr[c].degrees)
                   ELSE fr[c].pos - TierStep(fr[c].speed) <= deg2ms(fr[c].degrees)]_vars

\* a Fast move up from 70 has written its third pulse
C15_Witness ==
    \E c \in Callers :
        /\ pc[c] = "stepUp"
        /\ fr[c].speed = "Fast"
        /\ svPos = 70
        /\ fr[c].pos = deg2ms(70) + 90
        /\ servoOut = <<PulseWrite(c, deg2ms(70) + 90)>>

\* C16: every pulse of a stepped move is strictly short of deg2ms(target) in the
\* direction of travel, and when the move ends the last pulse written is at
\* most one step short of it; the move writes nothing as it ends and sets svPos
\* to the target.
C16_LastPulseShort ==
    [][\A c \in Callers :
          /\ InSteps(c)' =>
                \A i \in DOMAIN servoOut' :
                    /\ servoOut'[i].kind = "pulse"
                    /\ IF pc'[c] = "stepUp"
                       THEN servoOut'[i].val < deg2ms(fr'[c].degrees)
                       ELSE servoOut'[i].val > deg2ms(fr'[c].degrees)
          /\ (InSteps(c) /\ ~InSteps(c)') =>
                LET last == servoOut[1].val
                    target == deg2ms(fr[c].degrees)
                    step == TierStep(fr[c].speed)
                IN /\ servoOut' = servoOut
                   /\ svPos' = fr[c].degrees
                   /\ svPos' # svPos
                   /\ IF pc[c] = "stepUp"
                      THEN target - step <= last /\ last < target
                      ELSE target < last /\ last <= target + step]_vars

\* a VerySlow move down from 79 to 70 has ended: 100 steps lie between the two,
\* and the last pulse written is one step above deg2ms(70)
C16_Witness ==
    /\ ret.op = "resumed"
    /\ ret.from = 79
    /\ svPos = 70
    /\ ~svMoving
    /\ servoOut = <<PulseWrite("main", deg2ms(70) + 9)>>

\* C17: svMoving is set only while svPos is known; a known svPos stays known;
\* and every value given to svPos lies in 0..180.
C17_KnownPosition ==
    [][/\ svMoving' => svPos' # Unknown
       /\ svPos # Unknown => svPos' # Unknown
       /\ svPos' # svPos => svPos' \in 0..180
       /\ svPos' # Unknown => svPos' \in 0..180
       /\ \A c \in Callers : (~InSteps(c) /\ InSteps(c)') => svPos \in 0..180]_vars

\* a stepped move is under way from 180, where setServo(200) put the servo
\* under presets (70, 90, 200)
C17_Witness ==
    /\ svMoving
    /\ svPos = 180
    /\ svSwitched = 180
    /\ pc["main"] = "stepDown"

\* C18: a motion call that has to wait keeps the target it clamped, under the
\* presets in force when it was made, through the wait and through its steps,
\* whatever setServoPresets does meanwhile, and svPos is that target when it
\* returns.
C18_ClampAtIssue ==
    [][\A c \in Callers :
          /\ (pc[c] = "idle" /\ Stalled(c)') =>
                /\ \A d \in Degrees :
                      \/ fr'[c].degrees = clamp(d, svClosed, svSwitched)
                      \/ ~setServo(c, d)
                /\ \A d \in Degrees :
                      \/ fr'[c].degrees = clamp(d, svClosed, svSwitched)
                      \/ ~moveServo(c, d, fr'[c].speed)
                /\ \A p \in servoPos :
                      \/ fr'[c].degrees = clamp(PresetAngle(p), svClosed, svSwitched)
                      \/ ~positionServo(c, p, fr'[c].speed)
          /\ (Stalled(c) /\ pc'[c] # "idle") => fr'[c].degrees = fr[c].degrees
          /\ (Stalled(c) /\ pc'[c] = "idle") => svPos' = fr[c].degrees
          /\ (Stalled(c) /\ InSteps(c)') =>
                pc'[c] = (IF fr[c].degrees < svPos THEN "stepDown" ELSE "stepUp")]_vars

\* a setServo that waited has set the servo to 70, the clamp under the presets
\* of its call, while Closed is 90 by now
C18_Witness ==
    /\ ret.op = "resumed"
    /\ svPos = 70
    /\ svClosed = 90
    /\ ~svMoving
    /\ servoOut = <<AngleWrite(ret.by, 70)>>

====
